---- MODULE Spec2Model ----
(***************************************************************************)
(* CustomDataAlgorithm (Demonstration.py): a QCAlgorithm subclass driven   *)
(* by the host engine through Initialize, OnData and OnOrderEvent.         *)
(*                                                                         *)
(* The instance is modelled by its attribute dictionary (self), the host   *)
(* by the calls it receives and by the slice / order event it owns and     *)
(* hands to the callbacks.  Each handler is an operator computing the      *)
(* handler's complete effect; the actions apply that effect.               *)
(***************************************************************************)
EXTENDS Integers, Sequences, FiniteSets, TLC

\* Number of order events the host delivers in a run.
MaxEvents == 3

----------------------------------------------------------------------------
\* Values

MyCustomDataType == "MyCustomDataType"

NoSymbol == [id |-> "", type |-> "None"]

\* .Symbol of the security the host returns for AddEquity(ticker, resolution)
HostAddEquity(ticker, resolution) == [id |-> ticker, type |-> "Equity"]

\* .Symbol of the security the host returns for AddData(dataType, underlying)
HostAddData(dataType, underlying) == [id |-> underlying.id, type |-> dataType]

\* Custom-data symbols a slice may carry records for: the one subscribed by
\* Initialize and one of another instrument.
CustomSymbols ==
    { HostAddData(MyCustomDataType, HostAddEquity(t, "Daily")) : t \in {"SPY", "AAPL"} }

\* Values of MyCustomDataType.SomeCustomProperty
Signals == {"buy", "sell", "hold"}

\* The mappings slice.Get(MyCustomDataType) can return: symbol -> record,
\* possibly empty.
CustomMappings ==
    UNION { [S -> [SomeCustomProperty : Signals]] : S \in SUBSET CustomSymbols }

\* The mappings of daily bars.
BarMappings ==
    UNION { [S -> [Close : {100}]] : S \in SUBSET {HostAddEquity("SPY", "Daily")} }

\* Slice objects keyed by data type.
Slices == [MyCustomDataType : CustomMappings, TradeBar : BarMappings]

OrderStatus == {"Submitted", "PartiallyFilled", "Filled", "Canceled", "Invalid"}

OrderEvents ==
    [Status : OrderStatus, Symbol : {HostAddEquity(t, "Daily") : t \in {"SPY", "AAPL"}}]

EmptySlice == [MyCustomDataType |-> <<>>, TradeBar |-> <<>>]
NoOrderEvent == [Status |-> "Invalid", Symbol |-> NoSymbol]

\* A call into the host: API name and its arguments by type.
Call(api, syms, strs, ints) == [api |-> api, syms |-> syms, strs |-> strs, ints |-> ints]

----------------------------------------------------------------------------
\* Python object semantics used by the handlers

\* An instance with no attribute set.
EmptyObject == [n \in {} |-> NoSymbol]

\* self.<name> : the attribute's value, or AttributeError when it is not set.
GetAttr(obj, name) ==
    IF name \in DOMAIN obj
    THEN [ok |-> TRUE, val |-> obj[name]]
    ELSE [ok |-> FALSE, val |-> NoSymbol]

\* self.<name> = val
SetAttr(obj, name, val) ==
    [n \in (DOMAIN obj) \cup {name} |-> IF n = name THEN val ELSE obj[n]]

\* `if data:` : a mapping is true when it is not empty.
Truthy(data) == DOMAIN data # {}

\* slice.Get(dataType)
Get(slice, dataType) == slice[dataType]

\* The effect of a handler: the calls it made on the host in order, the
\* exception that left it ("none" when it returned), the instance and the
\* argument object as it left them, and the attributes of self it read.
Effect(calls, raised, obj, arg, reads) ==
    [calls |-> calls, raised |-> raised, self |-> obj, arg |-> arg, reads |-> reads]

----------------------------------------------------------------------------
\* Initialize

\* Variant of Initialize that also subscribes a second equity.
InitializeEffect_ExtraEquity(obj) ==
    LET equity == HostAddEquity("SPY", "Daily")
        obj1   == SetAttr(obj, "equity_symbol", equity)
        under  == GetAttr(obj1, "equity_symbol").val
        custom == HostAddData(MyCustomDataType, under)
        obj2   == SetAttr(obj1, "custom_data_symbol", custom)
    IN  Effect(<< Call("SetStartDate", <<>>, <<>>, <<2020, 10, 7>>),
                  Call("SetEndDate", <<>>, <<>>, <<2020, 10, 11>>),
                  Call("AddEquity", <<>>, <<"SPY", "Daily">>, <<>>),
                  Call("AddEquity", <<>>, <<"AAPL", "Daily">>, <<>>),
                  Call("AddData", <<under>>, <<MyCustomDataType>>, <<>>) >>,
               "none", obj2, NoSymbol, {"equity_symbol"})

InitializeEffect(obj) ==
    LET equity == HostAddEquity("SPY", "Daily")
        obj1   == SetAttr(obj, "equity_symbol", equity)
        under  == GetAttr(obj1, "equity_symbol").val
        custom == HostAddData(MyCustomDataType, under)
        obj2   == SetAttr(obj1, "custom_data_symbol", custom)
    IN  Effect(<< Call("SetStartDate", <<>>, <<>>, <<2020, 10, 7>>),
                  Call("SetEndDate", <<>>, <<>>, <<2020, 10, 11>>),
                  Call("AddEquity", <<>>, <<"SPY", "Daily">>, <<>>),
                  Call("AddData", <<under>>, <<MyCustomDataType>>, <<>>) >>,
               "none", obj2, NoSymbol, {"equity_symbol"})

----------------------------------------------------------------------------
\* OnData

\* self.SetHoldings(self.equitySymbol, weight): the argument is evaluated
\* before the call is made.
SetHoldingsStmt(obj, slice, weight, reads) ==
    LET target == GetAttr(obj, "equitySymbol")
        rd     == reads \cup {"equitySymbol"}
    IN  IF target.ok
        THEN Effect(<< Call("SetHoldings", <<target.val>>, <<>>, <<weight>>) >>,
                    "none", obj, slice, rd)
        ELSE Effect(<<>>, "AttributeError", obj, slice, rd)

\* Variant of OnData that trades on whichever record the mapping holds
\* (iterating data.values()) for the handle stored by Initialize.
OnDataEffect_AnyRecord(obj, slice) ==
    LET data == Get(slice, MyCustomDataType)
    IN  IF ~Truthy(data)
        THEN Effect(<<>>, "none", obj, slice, {})
        ELSE LET custom_data == data[CHOOSE k \in DOMAIN data : TRUE]
                 target      == GetAttr(obj, "equity_symbol")
                 rd          == {"equity_symbol"}
             IN  IF custom_data.SomeCustomProperty = "buy"
                 THEN Effect(<< Call("SetHoldings", <<target.val>>, <<>>, <<1>>) >>,
                             "none", obj, slice, rd)
                 ELSE IF custom_data.SomeCustomProperty = "sell"
                 THEN Effect(<< Call("SetHoldings", <<target.val>>, <<>>, <<-1>>) >>,
                             "none", obj, slice, rd)
                 ELSE Effect(<<>>, "none", obj, slice, rd)

\* Variant of OnData whose second branch is `else:` instead of
\* `elif ... == "sell":`.
OnDataEffect_ElseSell(obj, slice) ==
    LET data == Get(slice, MyCustomDataType)
    IN  IF ~Truthy(data)
        THEN Effect(<<>>, "none", obj, slice, {})
        ELSE LET key == GetAttr(obj, "custom_data_symbol")
                 rd  == {"custom_data_symbol"}
             IN  IF ~key.ok
                 THEN Effect(<<>>, "AttributeError", obj, slice, rd)
                 ELSE IF key.val \notin DOMAIN data
                 THEN Effect(<<>>, "KeyError", obj, slice, rd)
                 ELSE LET custom_data == data[key.val]
                      IN  IF custom_data.SomeCustomProperty = "buy"
                          THEN SetHoldingsStmt(obj, slice, 1, rd)
                          ELSE SetHoldingsStmt(obj, slice, -1, rd)

\* Variant of OnData that takes the record out of the mapping
\* (data.pop(...)) instead of indexing it.
OnDataEffect_PopsRecord(obj, slice) ==
    LET data == Get(slice, MyCustomDataType)
    IN  IF ~Truthy(data)
        THEN Effect(<<>>, "none", obj, slice, {})
        ELSE LET key == GetAttr(obj, "custom_data_symbol")
                 rd  == {"custom_data_symbol"}
             IN  IF ~key.ok
                 THEN Effect(<<>>, "AttributeError", obj, slice, rd)
                 ELSE IF key.val \notin DOMAIN data
                 THEN Effect(<<>>, "KeyError", obj, slice, rd)
                 ELSE LET custom_data == data[key.val]
                          rest   == [k \in (DOMAIN data) \ {key.val} |-> data[k]]
                          popped == [slice EXCEPT ![MyCustomDataType] = rest]
                      IN  IF custom_data.SomeCustomProperty = "buy"
                          THEN SetHoldingsStmt(obj, popped, 1, rd)
                          ELSE IF custom_data.SomeCustomProperty = "sell"
                          THEN SetHoldingsStmt(obj, popped, -1, rd)
                          ELSE Effect(<<>>, "none", obj, popped, rd)

OnDataEffect(obj, slice) ==
    LET data == Get(slice, MyCustomDataType)
    IN  IF ~Truthy(data)
        THEN Effect(<<>>, "none", obj, slice, {})
        ELSE LET key == GetAttr(obj, "custom_data_symbol")
                 rd  == {"custom_data_symbol"}
             IN  IF ~key.ok
                 THEN Effect(<<>>, "AttributeError", obj, slice, rd)
                 ELSE IF key.val \notin DOMAIN data
                 THEN Effect(<<>>, "KeyError", obj, slice, rd)
                 ELSE LET custom_data == data[key.val]
                      IN  IF custom_data.SomeCustomProperty = "buy"
                          THEN SetHoldingsStmt(obj, slice, 1, rd)
                          ELSE IF custom_data.SomeCustomProperty = "sell"
                          THEN SetHoldingsStmt(obj, slice, -1, rd)
                          ELSE Effect(<<>>, "none", obj, slice, rd)

----------------------------------------------------------------------------
\* OnOrderEvent

\* f'Purchased Stock: {orderEvent.Symbol}' : the literal text followed by
\* the symbol's rendering.
DebugMessage(symbol) == Call("Debug", <<symbol>>, <<"Purchased Stock: ">>, <<>>)

\* Variant of OnOrderEvent that also reports partial fills.
OnOrderEventEffect_AnyFill(obj, orderEvent) ==
    IF orderEvent.Status \in {"Filled", "PartiallyFilled"}
    THEN Effect(<< DebugMessage(orderEvent.Symbol) >>, "none", obj, orderEvent, {})
    ELSE Effect(<<>>, "none", obj, orderEvent, {})

\* Variant of OnOrderEvent that keeps the filled symbol as the traded one.
OnOrderEventEffect_StoresSymbol(obj, orderEvent) ==
    IF orderEvent.Status = "Filled"
    THEN Effect(<< DebugMessage(orderEvent.Symbol) >>, "none",
                SetAttr(obj, "equity_symbol", orderEvent.Symbol), orderEvent, {})
    ELSE Effect(<<>>, "none", obj, orderEvent, {})

OnOrderEventEffect(obj, orderEvent) ==
    IF orderEvent.Status = "Filled"
    THEN Effect(<< DebugMessage(orderEvent.Symbol) >>, "none", obj, orderEvent, {})
    ELSE Effect(<<>>, "none", obj, orderEvent, {})

----------------------------------------------------------------------------
\* The run

VARIABLES pc, last, self, slice, orderEvent, issued, raised, reads,
          registered, nEvents, nFilled, nDebug

vars == << pc, last, self, slice, orderEvent, issued, raised, reads,
           registered, nEvents, nFilled, nDebug >>

IsRegistration(c) == c.api \in {"SetStartDate", "SetEndDate", "AddEquity", "AddData"}
IsDebug(c) == c.api = "Debug"

Init ==
    /\ pc = "start"
    /\ last = "none"
    /\ self = EmptyObject
    /\ slice = EmptySlice
    /\ orderEvent = NoOrderEvent
    /\ issued = <<>>
    /\ raised = "none"
    /\ reads = {}
    /\ registered = <<>>
    /\ nEvents = 0
    /\ nFilled = 0
    /\ nDebug = 0

\* What the host records of a handler's effect.
Record(eff, handler) ==
    /\ self' = eff.self
    /\ issued' = eff.calls
    /\ raised' = eff.raised
    /\ reads' = eff.reads
    /\ registered' = registered \o SelectSeq(eff.calls, IsRegistration)
    /\ nDebug' = nDebug + Len(SelectSeq(eff.calls, IsDebug))
    /\ last' = handler
    /\ pc' = "idle"

Initialize ==
    /\ pc = "start"
    /\ Record(InitializeEffect(self), "Initialize")
    /\ UNCHANGED << slice, orderEvent, nEvents, nFilled >>

\* The host builds the slice of the next time step.
DeliverSlice ==
    /\ pc = "idle"
    /\ \E s \in Slices : slice' = s
    /\ pc' = "data"
    /\ UNCHANGED << last, self, orderEvent, issued, raised, reads,
                    registered, nEvents, nFilled, nDebug >>

OnData ==
    /\ pc = "data"
    /\ LET eff == OnDataEffect(self, slice)
       IN  /\ Record(eff, "OnData")
           /\ slice' = eff.arg
    /\ UNCHANGED << orderEvent, nEvents, nFilled >>

\* The host raises an order event.
DeliverOrderEvent ==
    /\ pc = "idle"
    /\ nEvents < MaxEvents
    /\ \E e \in OrderEvents :
          /\ orderEvent' = e
          /\ nFilled' = nFilled + (IF e.Status = "Filled" THEN 1 ELSE 0)
    /\ nEvents' = nEvents + 1
    /\ pc' = "order"
    /\ UNCHANGED << last, self, slice, issued, raised, reads, registered, nDebug >>

OnOrderEvent ==
    /\ pc = "order"
    /\ LET eff == OnOrderEventEffect(self, orderEvent)
       IN  /\ Record(eff, "OnOrderEvent")
           /\ orderEvent' = eff.arg
    /\ UNCHANGED << slice, nEvents, nFilled >>

Next ==
    \/ Initialize
    \/ DeliverSlice
    \/ OnData
    \/ DeliverOrderEvent
    \/ OnOrderEvent

Spec == Init /\ [][Next]_vars

----------------------------------------------------------------------------
\* Vocabulary of the properties

\* The handle returned by the SPY equity subscription.
SubscribedEquity == HostAddEquity("SPY", "Daily")

\* The handle returned by the custom-data subscription bound to it.
SubscribedCustom == HostAddData(MyCustomDataType, SubscribedEquity)

\* Handler h has just returned (or raised) and the host has not moved on.
Handled(h) == pc = "idle" /\ last = h

\* The custom-data mapping of the slice the host last delivered.
CustomData == Get(slice, MyCustomDataType)

HasRecord == SubscribedCustom \in DOMAIN CustomData

Signal == CustomData[SubscribedCustom].SomeCustomProperty

SetHoldingsCalls(calls) == SelectSeq(calls, LAMBDA c : c.api = "SetHoldings")

DebugCalls(calls) == SelectSeq(calls, IsDebug)

Apis(calls) == { calls[i].api : i \in DOMAIN calls }

----------------------------------------------------------------------------
\* Properties

\* C1: after OnData has handled a slice holding a record with signal "buy"
\* for the subscribed custom-data symbol, the handler has issued a
\* set-target-holdings command of weight 1 for the handle returned by the
\* SPY equity subscription.
C1_BuySetsHoldingsLong ==
    (Handled("OnData") /\ HasRecord /\ Signal = "buy")
        => SetHoldingsCalls(issued)
              = << Call("SetHoldings", <<SubscribedEquity>>, <<>>, <<1>>) >>

\* C2: after OnData has handled a slice holding a record with signal "sell"
\* for the subscribed custom-data symbol, the handler has issued a
\* set-target-holdings command of weight -1 for the underlying equity.
C2_SellSetsHoldingsShort ==
    (Handled("OnData") /\ HasRecord /\ Signal = "sell")
        => SetHoldingsCalls(issued)
              = << Call("SetHoldings", <<SubscribedEquity>>, <<>>, <<-1>>) >>

\* C3: when the slice OnData handled has no record for the subscribed
\* custom-data symbol (empty mapping, or records of other instruments only),
\* no set-target-holdings command has been issued.
C3_NoRecordNoHoldings ==
    (Handled("OnData") /\ ~HasRecord) => SetHoldingsCalls(issued) = <<>>

C3_Witness ==
    /\ Handled("OnData")
    /\ Truthy(CustomData)
    /\ ~HasRecord
    /\ \E k \in DOMAIN CustomData : CustomData[k].SomeCustomProperty = "buy"

\* C4: when the slice OnData handled has no record for the subscribed
\* custom-data symbol, the handler returned normally: no exception reached
\* the host, whether the mapping was empty or not.
C4_NoRecordIsNoError ==
    (Handled("OnData") /\ ~HasRecord) => raised = "none"

\* C5: when the slice OnData handled holds a record for the subscribed symbol
\* whose signal is neither "buy" nor "sell", the handler returned without
\* issuing any command.
C5_OtherSignalNoAction ==
    (Handled("OnData") /\ HasRecord /\ Signal \notin {"buy", "sell"})
        => (issued = <<>> /\ raised = "none")

C5_Witness == Handled("OnData") /\ HasRecord /\ Signal = "hold"

\* C6: OnOrderEvent emits exactly one diagnostic message, naming the event's
\* symbol, for a Filled event and none for any other status; so the number
\* of messages emitted equals the number of Filled events handled.
C6_OneMessagePerFill ==
    /\ Handled("OnOrderEvent") =>
          IF orderEvent.Status = "Filled"
          THEN /\ Len(DebugCalls(issued)) = 1
               /\ DebugCalls(issued)[1].syms = << orderEvent.Symbol >>
          ELSE DebugCalls(issued) = <<>>
    /\ pc = "idle" => nDebug = nFilled

C6_Witness ==
    /\ Handled("OnOrderEvent")
    /\ orderEvent.Status = "Filled"
    /\ nFilled >= 2
    /\ nEvents > nFilled

\* C7: once Initialize has run the host has been given, in this order, the
\* start date 2020-10-07, the end date 2020-10-11, the equity subscription
\* "SPY" at daily resolution and the custom-data subscription of
\* MyCustomDataType bound to the handle the equity subscription returned,
\* and no other registration.
C7_RegistrationsInOrder ==
    pc # "start" =>
        registered = << Call("SetStartDate", <<>>, <<>>, <<2020, 10, 7>>),
                        Call("SetEndDate", <<>>, <<>>, <<2020, 10, 11>>),
                        Call("AddEquity", <<>>, <<"SPY", "Daily">>, <<>>),
                        Call("AddData", <<SubscribedEquity>>, <<MyCustomDataType>>, <<>>) >>

C7_Witness == Handled("Initialize") /\ Len(registered) = 4

\* C8: after Initialize, no step changes the registered date range and
\* subscriptions or the symbols stored on the instance.
C8_ConfigurationFixed ==
    [][pc # "start" => (registered' = registered /\ self' = self)]_vars

C8_Witness ==
    /\ Handled("OnData")
    /\ HasRecord
    /\ nFilled >= 1
    /\ self = InitializeEffect(EmptyObject).self

\* C9: OnData leaves the slice it is given as it was and OnOrderEvent leaves
\* the order event as it was; OnData calls nothing on the host but
\* SetHoldings and OnOrderEvent nothing but Debug.
C9_ArgumentsUntouched ==
    [][ /\ pc = "data"  => (slice' = slice /\ Apis(issued') \subseteq {"SetHoldings"})
        /\ pc = "order" => (orderEvent' = orderEvent /\ Apis(issued') \subseteq {"Debug"})
      ]_vars

C9_Witness ==
    /\ Handled("OnOrderEvent")
    /\ orderEvent.Status = "Filled"
    /\ issued # <<>>
    /\ HasRecord

\* C10: every attribute of self that OnData read is one Initialize assigned,
\* so OnData never reads an attribute that is not set.
C10_ReadsAreAssigned ==
    Handled("OnData") =>
        (reads \subseteq DOMAIN InitializeEffect(EmptyObject).self /\ raised # "AttributeError")

====
